---- MODULE Spec2Model ----
(***************************************************************************)
(* TicketSim2: the binary min-heap priority queue (HeapPriorityQueue.py)   *)
(* and the discrete-event ticket counter simulation built on it            *)
(* (ticket_counter_simulator.py).                                          *)
(*                                                                         *)
(* The specifications share the heap operators:                            *)
(*   SpecHeap  one HeapPriorityQueue driven by arbitrary add / min /       *)
(*             remove_min calls, constructed from any list of pairs;       *)
(*   SpecSort  n add() calls followed by n remove_min() calls, next to a   *)
(*             queue bulk-constructed from the same pairs and drained;     *)
(*   Spec      TicketCounterSim: construction, then step() calls;          *)
(*   SpecVerify  the same engine, with verify_calculations() callable in   *)
(*             every state;                                                *)
(*   SpecEquiv an UnsortedPriorityQueue and a HeapPriorityQueue given the  *)
(*             same calls.                                                 *)
(*                                                                         *)
(* Python lists are 0-indexed; the heap operators keep the source's        *)
(* 0-based index arithmetic and read the TLA+ sequence through At.         *)
(* Time is a float in the source; here it is counted in ticks,             *)
(* TicksPerUnit ticks to the time unit, so that times below 1.0 exist.     *)
(* Floating-point rounding is not modelled.                                *)
(***************************************************************************)
EXTENDS Integers, Sequences, FiniteSets, TLC

VARIABLES
    \* ---- SpecHeap: one HeapPriorityQueue and the outcome of the last call
    data,           \* self._data, a sequence of _Item
    last_op,        \* "init", "add", "min" or "remove_min"
    ret,            \* what the last call returned: <<key, value>>, or <<>>
    raised,         \* the exception the last call raised, or "none"
    \* ---- SpecSort: pq built by add() calls, pq built by the constructor
    input,          \* the list of (key, value) pairs
    pc,             \* "add", "drainA", "build", "drainB", "done"
    hA, outA,       \* queue filled by add(), and what remove_min returned
    hB, outB,       \* queue built by HeapPriorityQueue(input), likewise
    \* ---- Spec: TicketCounterSim
    num_servers, num_customers, service_time,
    future_events, waiting_line, servers, customers, metrics,
    current_time, queue_length_history, utilization_history, time_history,
    cumulative_utilization_history,
    has_cumulative, \* hasattr(self, "cumulative_utilization_history")
    step_ret,       \* what the last step() returned: "none" before any call
    last_event,     \* the event the last step() removed (local `event`)
    wait_log,       \* history: the ids appended to waiting_line, in order
    event_log,      \* history: the events step() removed, in order
    \* ---- SpecVerify
    verify_out,     \* outcome of verify_calculations() if it was the last call
    \* ---- SpecEquiv: the two priority queues and the last call's outcomes
    uq,             \* UnsortedPriorityQueue: [data, min_position]
    hq,             \* HeapPriorityQueue._data
    eq_op,          \* the last call: "init", "add", "min", "remove_min", ...
    u_out, h_out    \* its outcome on uq and on hq: [raised, ret]

heapVars == <<data, last_op, ret, raised>>
sortVars == <<input, pc, hA, outA, hB, outB>>
simVars  == <<num_servers, num_customers, service_time, future_events,
              waiting_line, servers, customers, metrics, current_time,
              queue_length_history, utilization_history, time_history,
              cumulative_utilization_history, has_cumulative, step_ret,
              last_event, wait_log, event_log>>
verVars  == <<verify_out>>
unsVars  == <<uq, hq, eq_op, u_out, h_out>>
vars == <<heapVars, sortVars, simVars, verVars, unsVars>>

\* ------------------------------------------------------------------ bounds
MaxKey == 3
MaxLen == 4
MaxServers == 2
MaxCustomers == 4
MaxGap == 2
MaxService == 2
TicksPerUnit == 2

Keys == 1..MaxKey
Vals == {"a", "b"}

\* Sequences over S of length at most n.
SeqsUpTo(S, n) == UNION {[1..m -> S] : m \in 0..n}

\* --------------------------------------------------- PriorityQueueBase._Item
Item(k, v) == [key |-> k, value |-> v]

lt_or_equal(a, b) == a.key <= b.key

\* _Item.__lt__: items compare on their keys alone.
lt(a, b) == a.key < b.key

\* --------------------------------------------------------- HeapPriorityQueue
At(d, j) == d[j + 1]

parent(j) == (j - 1) \div 2

left(j) == 2 * j + 1

right(j) == 2 * j + 2

has_left(d, j) == left(j) < Len(d)

has_right(d, j) == right(j) < Len(d)

swap(d, i, j) == [d EXCEPT ![i + 1] = d[j + 1], ![j + 1] = d[i + 1]]

RECURSIVE upheap(_, _)
upheap(d, j) ==
    IF j > 0 /\ lt(At(d, j), At(d, parent(j)))
    THEN upheap(swap(d, j, parent(j)), parent(j))
    ELSE d

small_child_left(d, j) == left(j)

\* The child _downheap compares with: the left one unless the right one
\* exists and is strictly smaller.
small_child(d, j) ==
    IF has_right(d, j) /\ lt(At(d, right(j)), At(d, left(j)))
    THEN right(j)
    ELSE left(j)

RECURSIVE downheap(_, _)
downheap(d, j) ==
    IF has_left(d, j)
    THEN LET sc == small_child(d, j)
         IN  IF lt(At(d, sc), At(d, j))
             THEN downheap(swap(d, j, sc), sc)
             ELSE d
    ELSE d

RECURSIVE heapify_from(_, _)
heapify_from(d, j) ==
    IF j < 0 THEN d ELSE heapify_from(downheap(d, j), j - 1)

heapify_skip_root(d) ==
    LET RECURSIVE go(_, _)
        go(e, j) == IF j < 1 THEN e ELSE go(downheap(e, j), j - 1)
    IN  go(d, parent(Len(d) - 1))

\* for j in range(start, -1, -1): self._downheap(j)
heapify(d) == heapify_from(d, parent(Len(d) - 1))

\* HeapPriorityQueue(contents): contents is a sequence of <<key, value>>.
heap_init(contents) ==
    LET d == [i \in 1..Len(contents) |->
                 Item(contents[i][1], contents[i][2])]
    IN  IF Len(d) > 1 THEN heapify(d) ELSE d

is_empty(d) == Len(d) = 0

add_no_upheap(d, k, v) == Append(d, Item(k, v))

\* add: _data after the call.
add(d, k, v) == upheap(Append(d, Item(k, v)), Len(d))

\* remove_min on a non-empty queue: the item popped after the swap.
remove_min_item(d) == At(swap(d, 0, Len(d) - 1), Len(d) - 1)

remove_min_no_downheap(d) == SubSeq(swap(d, 0, Len(d) - 1), 1, Len(d) - 1)

\* remove_min on a non-empty queue: _data after the call.
remove_min_data(d) ==
    downheap(SubSeq(swap(d, 0, Len(d) - 1), 1, Len(d) - 1), 0)

AsPair(item) == <<item.key, item.value>>

\* The heap order of a sequence of items.
HeapOrdered(d) ==
    \A j \in 1..(Len(d) - 1) : At(d, j).key >= At(d, parent(j)).key

KeysOf(s) == [i \in 1..Len(s) |-> s[i][1]]

NonDecreasing(s) == \A i \in 1..(Len(s) - 1) : s[i] <= s[i + 1]

\* How many times x occurs in the sequence s.
Count(x, s) == Cardinality({i \in 1..Len(s) : s[i] = x})

SameMultiset(s, t) ==
    /\ Len(s) = Len(t)
    /\ \A i \in 1..Len(s) : Count(s[i], s) = Count(s[i], t)

min_removes(d) ==
    IF is_empty(d)
    THEN [raised |-> "IndexError", ret |-> <<>>, data |-> d]
    ELSE [raised |-> "none", ret |-> AsPair(At(d, 0)),
          data |-> remove_min_data(d)]

\* min(): the outcome of the call on _data = d.
min(d) ==
    IF is_empty(d)
    THEN [raised |-> "IndexError", ret |-> <<>>, data |-> d]
    ELSE [raised |-> "none", ret |-> AsPair(At(d, 0)), data |-> d]

remove_min_silent(d) ==
    IF is_empty(d)
    THEN [raised |-> "none", ret |-> <<>>, data |-> d]
    ELSE [raised |-> "none", ret |-> AsPair(remove_min_item(d)),
          data |-> remove_min_data(d)]

\* remove_min(): the outcome of the call on _data = d.
remove_min(d) ==
    IF is_empty(d)
    THEN [raised |-> "Exception", ret |-> <<>>, data |-> d]
    ELSE [raised |-> "none", ret |-> AsPair(remove_min_item(d)),
          data |-> remove_min_data(d)]

\* ================================================================ SpecHeap
HeapIdle ==
    /\ data = <<>>
    /\ last_op = "init"
    /\ ret = <<>>
    /\ raised = "none"

\* pq = HeapPriorityQueue(contents), contents any list of pairs (() included).
HeapInit ==
    /\ \E contents \in SeqsUpTo(Keys \X Vals, MaxLen) :
           data = heap_init(contents)
    /\ last_op = "init"
    /\ ret = <<>>
    /\ raised = "none"

\* pq.add(k, v)
Add(k, v) ==
    /\ Len(data) < MaxLen
    /\ data' = add(data, k, v)
    /\ last_op' = "add"
    /\ ret' = <<>>
    /\ raised' = "none"
    /\ UNCHANGED <<sortVars, simVars, verVars, unsVars>>

\* pq.min()
Min ==
    /\ data' = min(data).data
    /\ last_op' = "min"
    /\ ret' = min(data).ret
    /\ raised' = min(data).raised
    /\ UNCHANGED <<sortVars, simVars, verVars, unsVars>>

\* pq.remove_min()
RemoveMin ==
    /\ data' = remove_min(data).data
    /\ last_op' = "remove_min"
    /\ ret' = remove_min(data).ret
    /\ raised' = remove_min(data).raised
    /\ UNCHANGED <<sortVars, simVars, verVars, unsVars>>

\* ================================================================ SpecSort
ScenarioC ==
    <<<<5, "a">>, <<3, "a">>, <<8, "a">>, <<1, "a">>, <<9, "a">>, <<2, "a">>>>

SortIdle ==
    /\ input = <<>>
    /\ pc = "done"
    /\ hA = <<>>
    /\ outA = <<>>
    /\ hB = <<>>
    /\ outB = <<>>

SortInit ==
    /\ input \in SeqsUpTo(Keys \X Vals, MaxLen) \cup {ScenarioC}
    /\ pc = "add"
    /\ hA = heap_init(<<>>)
    /\ outA = <<>>
    /\ hB = <<>>
    /\ outB = <<>>

\* The next pair of the input is added: P.add(k, v).
SortAdd ==
    /\ pc = "add"
    /\ Len(hA) < Len(input)
    /\ hA' = add(hA, input[Len(hA) + 1][1], input[Len(hA) + 1][2])
    /\ UNCHANGED <<input, pc, outA, hB, outB, heapVars, simVars, verVars, unsVars>>

SortAdded ==
    /\ pc = "add"
    /\ Len(hA) = Len(input)
    /\ pc' = "drainA"
    /\ UNCHANGED <<input, hA, outA, hB, outB, heapVars, simVars, verVars, unsVars>>

\* One remove_min() of the n that follow the n add() calls.
SortRemoveA ==
    /\ pc = "drainA"
    /\ Len(outA) < Len(input)
    /\ remove_min(hA).raised = "none"
    /\ hA' = remove_min(hA).data
    /\ outA' = Append(outA, remove_min(hA).ret)
    /\ UNCHANGED <<input, pc, hB, outB, heapVars, simVars, verVars, unsVars>>

\* The second queue is bulk-constructed: HeapPriorityQueue(input).
SortBuild ==
    /\ pc = "drainA"
    /\ Len(outA) = Len(input)
    /\ hB' = heap_init(input)
    /\ pc' = "drainB"
    /\ UNCHANGED <<input, hA, outA, outB, heapVars, simVars, verVars, unsVars>>

SortRemoveB ==
    /\ pc = "drainB"
    /\ ~is_empty(hB)
    /\ hB' = remove_min(hB).data
    /\ outB' = Append(outB, remove_min(hB).ret)
    /\ UNCHANGED <<input, pc, hA, outA, heapVars, simVars, verVars, unsVars>>

SortDone ==
    /\ pc = "drainB"
    /\ is_empty(hB)
    /\ pc' = "done"
    /\ UNCHANGED <<input, hA, outA, hB, outB, heapVars, simVars, verVars, unsVars>>

\* ============================================================ Spec (engine)
\* An idle server slot (Python's None); customer ids are 0 .. num_customers-1.
None == -1

Event(time, event_type, customer_id) ==
    [time |-> time, event_type |-> event_type, customer_id |-> customer_id]

NoEvent == Event(0, "NONE", None)

Max(a, b) == IF a >= b THEN a ELSE b

RECURSIVE SumSeq(_)
SumSeq(s) == IF s = <<>> THEN 0 ELSE Head(s) + SumSeq(Tail(s))

\* A quotient num / den of two numbers, kept exact.
Frac(num, den) == [num |-> num, den |-> den]

\* The engine's attributes, as one value the handlers transform.
Self ==
    [num_servers |-> num_servers, num_customers |-> num_customers,
     service_time |-> service_time, future_events |-> future_events,
     waiting_line |-> waiting_line, servers |-> servers,
     customers |-> customers, metrics |-> metrics,
     current_time |-> current_time,
     queue_length_history |-> queue_length_history,
     utilization_history |-> utilization_history,
     time_history |-> time_history,
     cumulative_utilization_history |-> cumulative_utilization_history,
     has_cumulative |-> has_cumulative, step_ret |-> step_ret,
     last_event |-> last_event, wait_log |-> wait_log,
     event_log |-> event_log]

\* for i in range(num_customers): current_time += interarrival; add(ARRIVAL i).
\* gaps[i] is the i-th interarrival sample, in ticks.
RECURSIVE schedule_initial_arrivals(_, _, _, _)
schedule_initial_arrivals(fe, gaps, i, t) ==
    IF i > Len(gaps)
    THEN fe
    ELSE LET ct == t + gaps[i]
         IN  schedule_initial_arrivals(
                 add(fe, ct, Event(ct, "ARRIVAL", i - 1)), gaps, i + 1, ct)

last_slot(srv, x) ==
    IF \E i \in 1..Len(srv) : srv[i] = x
    THEN CHOOSE i \in 1..Len(srv) :
             srv[i] = x /\ \A j \in (i + 1)..Len(srv) : srv[j] # x
    ELSE 0

\* The slot the loop `for i, s in enumerate(self.servers)` stops at: the
\* lowest-indexed slot holding x, or 0 when no slot holds x.
first_slot(srv, x) ==
    IF \E i \in 1..Len(srv) : srv[i] = x
    THEN CHOOSE i \in 1..Len(srv) :
             srv[i] = x /\ \A j \in 1..(i - 1) : srv[j] # x
    ELSE 0

arrival_late_start(s, event) ==
    LET c  == event.customer_id
        s1 == [s EXCEPT !.customers =
                  (c :> [arrival |-> s.current_time]) @@ s.customers]
        i  == first_slot(s.servers, None)
    IN  IF i # 0
        THEN [s1 EXCEPT
                !.servers[i] = c,
                !.future_events = add(@, s.current_time + s.service_time,
                    Event(s.current_time + s.service_time,
                          "SERVICE_START", c))]
        ELSE [s1 EXCEPT !.waiting_line = Append(@, c),
                        !.wait_log = Append(@, c)]

arrival_drop(s, event) ==
    LET c  == event.customer_id
        s1 == [s EXCEPT !.customers =
                  (c :> [arrival |-> s.current_time]) @@ s.customers]
        i  == first_slot(s.servers, None)
    IN  IF i # 0
        THEN [s1 EXCEPT
                !.servers[i] = c,
                !.future_events = add(@, s.current_time,
                    Event(s.current_time, "SERVICE_START", c))]
        ELSE s1

arrival_no_return(s, event) ==
    LET c  == event.customer_id
        s1 == [s EXCEPT !.customers =
                  (c :> [arrival |-> s.current_time]) @@ s.customers]
        i  == first_slot(s.servers, None)
        s2 == IF i # 0
              THEN [s1 EXCEPT
                      !.servers[i] = c,
                      !.future_events = add(@, s.current_time,
                          Event(s.current_time, "SERVICE_START", c))]
              ELSE s1
    IN  [s2 EXCEPT !.waiting_line = Append(@, c),
                   !.wait_log = Append(@, c)]

\* _arrival
arrival(s, event) ==
    LET c  == event.customer_id
        s1 == [s EXCEPT !.customers =
                  (c :> [arrival |-> s.current_time]) @@ s.customers]
        i  == first_slot(s.servers, None)
    IN  IF i # 0
        THEN [s1 EXCEPT
                !.servers[i] = c,
                !.future_events = add(@, s.current_time,
                    Event(s.current_time, "SERVICE_START", c))]
        ELSE [s1 EXCEPT !.waiting_line = Append(@, c),
                        !.wait_log = Append(@, c)]

service_start_no_duration(s, event) ==
    LET c        == event.customer_id
        wait     == s.current_time - s.customers[c].arrival
        end_time == s.current_time
    IN  [s EXCEPT
           !.customers[c] = [arrival |-> @.arrival,
                             service_start |-> s.current_time],
           !.metrics.total_wait_time = @ + wait,
           !.future_events = add(@, end_time,
                                 Event(end_time, "SERVICE_END", c))]

service_start_wait_from_zero(s, event) ==
    LET c        == event.customer_id
        wait     == s.current_time
        end_time == s.current_time + s.service_time
    IN  [s EXCEPT
           !.customers[c] = [arrival |-> @.arrival,
                             service_start |-> s.current_time],
           !.metrics.total_wait_time = @ + wait,
           !.future_events = add(@, end_time,
                                 Event(end_time, "SERVICE_END", c))]

\* _service_start
service_start(s, event) ==
    LET c        == event.customer_id
        wait     == s.current_time - s.customers[c].arrival
        end_time == s.current_time + s.service_time
    IN  [s EXCEPT
           !.customers[c] = [arrival |-> @.arrival,
                             service_start |-> s.current_time],
           !.metrics.total_wait_time = @ + wait,
           !.future_events = add(@, end_time,
                                 Event(end_time, "SERVICE_END", c))]

\* The waiting customer _service_end serves next, and the line it leaves.
next_in_line_lifo(line) ==
    [next_cust |-> line[Len(line)], rest |-> SubSeq(line, 1, Len(line) - 1)]

\* waiting_line.popleft()
next_in_line(line) == [next_cust |-> Head(line), rest |-> Tail(line)]

busy_span_from_arrival(s, c) == s.current_time - s.customers[c].arrival

\* service_time = self.current_time - self.customers[c]["service_start"]
busy_span(s, c) == s.current_time - s.customers[c].service_start

hand_off_none(s, i) == s

hand_off_no_assign(s, i) ==
    IF s.waiting_line # <<>>
    THEN LET p == next_in_line(s.waiting_line)
         IN  [s EXCEPT
                !.waiting_line = p.rest,
                !.future_events = add(@, s.current_time,
                    Event(s.current_time, "SERVICE_START", p.next_cust))]
    ELSE s

\* if self.waiting_line: the head of the line takes the freed slot i.
hand_off(s, i) ==
    IF s.waiting_line # <<>>
    THEN LET p == next_in_line(s.waiting_line)
         IN  [s EXCEPT
                !.waiting_line = p.rest,
                !.servers[i] = p.next_cust,
                !.future_events = add(@, s.current_time,
                    Event(s.current_time, "SERVICE_START", p.next_cust))]
    ELSE s

\* _service_end
service_end(s, event) ==
    LET c  == event.customer_id
        s1 == [s EXCEPT !.metrics.num_served = @ + 1,
                        !.metrics.simulation_end = s.current_time]
        i  == first_slot(s.servers, c)
    IN  IF i = 0
        THEN s1
        ELSE hand_off([s1 EXCEPT
                         !.servers[i] = None,
                         !.metrics.server_busy_time[i] = @ + busy_span(s, c)],
                      i)

\* The record-metrics tail of step().
record_metrics(s) ==
    LET instant_busy  ==
            Cardinality({i \in 1..Len(s.servers) : s.servers[i] # None})
        instant_util  == Frac(instant_busy, s.num_servers)
        total_busy_time == SumSeq(s.metrics.server_busy_time)
        total_possible_time ==
            s.num_servers * Max(s.current_time, TicksPerUnit)
        cumulative_util ==
            IF total_possible_time > 0
            THEN Frac(total_busy_time, total_possible_time)
            ELSE Frac(0, 1)
    IN  [s EXCEPT
           !.time_history = Append(@, s.current_time),
           !.queue_length_history = Append(@, Len(s.waiting_line)),
           !.utilization_history = Append(@, instant_util),
           !.has_cumulative = TRUE,
           !.cumulative_utilization_history = Append(@, cumulative_util)]

\* The handler step() dispatches to.
dispatch(s, event) ==
    CASE event.event_type = "ARRIVAL"       -> arrival(s, event)
      [] event.event_type = "SERVICE_START" -> service_start(s, event)
      [] event.event_type = "SERVICE_END"   -> service_end(s, event)
      [] OTHER                              -> s

step_no_empty_check(s) ==
    IF is_empty(s.future_events)
    THEN [s EXCEPT !.step_ret = "raised"]
    ELSE LET rm    == remove_min(s.future_events)
             event == rm.ret[2]
             s0    == [s EXCEPT !.future_events = rm.data,
                                !.current_time = rm.ret[1],
                                !.last_event = event,
                                !.event_log = Append(@, event)]
         IN  [record_metrics(dispatch(s0, event)) EXCEPT !.step_ret = "True"]

\* step(): the engine after the call; step_ret is what the call returned.
\* (The `event is None` check never fires: only Event objects are added.)
step(s) ==
    IF is_empty(s.future_events)
    THEN [s EXCEPT !.step_ret = "False"]
    ELSE LET rm    == remove_min(s.future_events)
             event == rm.ret[2]
             s0    == [s EXCEPT !.future_events = rm.data,
                                !.current_time = rm.ret[1],
                                !.last_event = event,
                                !.event_log = Append(@, event)]
         IN  [record_metrics(dispatch(s0, event)) EXCEPT !.step_ret = "True"]

\* No verify_calculations() outcome: the last call was not that one.
NoVerify == [raised |-> "none", results |-> <<>>, called |-> FALSE]

VerIdle == verify_out = NoVerify

NoOutcome == [raised |-> "none", ret |-> <<>>]

UnsIdle ==
    /\ uq = [data |-> <<>>, min_position |-> 0]
    /\ hq = <<>>
    /\ eq_op = "init"
    /\ u_out = NoOutcome
    /\ h_out = NoOutcome

SimIdle ==
    /\ num_servers = 1
    /\ num_customers = 0
    /\ service_time = 1
    /\ future_events = <<>>
    /\ waiting_line = <<>>
    /\ servers = <<None>>
    /\ customers = <<>>
    /\ metrics = [total_wait_time |-> 0, num_served |-> 0,
                  server_busy_time |-> <<0>>, simulation_end |-> 0]
    /\ current_time = 0
    /\ queue_length_history = <<>>
    /\ utilization_history = <<>>
    /\ time_history = <<>>
    /\ cumulative_utilization_history = <<>>
    /\ has_cumulative = FALSE
    /\ step_ret = "none"
    /\ last_event = NoEvent
    /\ wait_log = <<>>
    /\ event_log = <<>>

\* TicketCounterSim(num_servers, arrival_rate, num_customers, service_time)
\* with a valid configuration; the interarrival samples are any gaps >= 0.
SimInit ==
    /\ num_servers \in 1..MaxServers
    /\ num_customers \in 1..MaxCustomers
    /\ service_time \in 1..MaxService
    /\ \E gaps \in [1..num_customers -> 0..MaxGap] :
           future_events =
               schedule_initial_arrivals(heap_init(<<>>), gaps, 1, 0)
    /\ waiting_line = <<>>
    /\ servers = [i \in 1..num_servers |-> None]
    /\ customers = <<>>
    /\ metrics = [total_wait_time |-> 0, num_served |-> 0,
                  server_busy_time |-> [i \in 1..num_servers |-> 0],
                  simulation_end |-> 0]
    /\ current_time = 0
    /\ queue_length_history = <<>>
    /\ utilization_history = <<>>
    /\ time_history = <<>>
    /\ cumulative_utilization_history = <<>>
    /\ has_cumulative = FALSE
    /\ step_ret = "none"
    /\ last_event = NoEvent
    /\ wait_log = <<>>
    /\ event_log = <<>>

\* sim.step()
Step ==
    LET n == step(Self)
    IN  /\ future_events' = n.future_events
        /\ waiting_line' = n.waiting_line
        /\ servers' = n.servers
        /\ customers' = n.customers
        /\ metrics' = n.metrics
        /\ current_time' = n.current_time
        /\ queue_length_history' = n.queue_length_history
        /\ utilization_history' = n.utilization_history
        /\ time_history' = n.time_history
        /\ cumulative_utilization_history' = n.cumulative_utilization_history
        /\ has_cumulative' = n.has_cumulative
        /\ step_ret' = n.step_ret
        /\ last_event' = n.last_event
        /\ wait_log' = n.wait_log
        /\ event_log' = n.event_log
        /\ verify_out' = NoVerify
        /\ UNCHANGED <<num_servers, num_customers, service_time,
                       heapVars, sortVars, unsVars>>

\* ---------------------------------------------------------- specifications
\* ------------------------------------------------------ UnsortedPriorityQueue
\* The list _data as the sequence of its elements, first to last; a Position
\* as the index of its element, None as 0.
NoPosition == 0

\* len(self._data)
list_len(l) == Len(l)

\* self._data.add_last(e): the list after the call and the new Position.
list_add_last(l, e) == [list |-> Append(l, e), position |-> Len(l) + 1]

\* self._data.delete(p): the list after the call and the element removed.
list_delete(l, p) ==
    [list    |-> SubSeq(l, 1, p - 1) \o SubSeq(l, p + 1, Len(l)),
     element |-> l[p]]

\* self._data.first()
list_first(l) == IF Len(l) = 0 THEN NoPosition ELSE 1

\* self._data.after(p)
list_after(l, p) == IF p < Len(l) THEN p + 1 ELSE NoPosition

\* The names a PriorityQueueBase subclass instance resolves through
\* PriorityQueueBase: the class body holds the nested class _Item only.
BaseAttributes == {"_Item"}

\* The names defined in the body of the nested class _Item.
ItemAttributes == {"__slots__", "__init__", "__lt__", "is_empty"}

\* The names the body of UnsortedPriorityQueue defines.
UnsortedAttributes == {"__init__", "__len__", "add", "min", "remove_min"}

\* self.is_empty() on an UnsortedPriorityQueue: the attribute lookup, then
\* the call.
u_is_empty(q) ==
    IF "is_empty" \in UnsortedAttributes \cup BaseAttributes
    THEN [raised |-> "none", ret |-> <<list_len(q.data) = 0>>, q |-> q]
    ELSE [raised |-> "AttributeError", ret |-> <<>>, q |-> q]

\* len(q)
u_len(q) == [raised |-> "none", ret |-> <<list_len(q.data)>>, q |-> q]

\* add(key, value)
u_add(q, key, value) ==
    LET new_item == Item(key, value)
        added    == list_add_last(q.data, new_item)
    IN  [raised |-> "none", ret |-> <<>>,
         q |-> [data |-> added.list,
                min_position |->
                    IF q.min_position = NoPosition
                           \/ lt(new_item, q.data[q.min_position])
                    THEN added.position
                    ELSE q.min_position]]

\* min()
u_min(q) ==
    LET e == u_is_empty(q)
    IN  IF e.raised # "none"
        THEN [raised |-> e.raised, ret |-> <<>>, q |-> q]
        ELSE IF e.ret[1]
        THEN [raised |-> "Exception", ret |-> <<>>, q |-> q]
        ELSE [raised |-> "none", ret |-> AsPair(q.data[q.min_position]),
              q |-> q]

\* The while loop of remove_min: the Position of the minimum found so far.
RECURSIVE rescan(_, _, _)
rescan(l, min_position, walk) ==
    IF walk = NoPosition
    THEN min_position
    ELSE rescan(l,
                IF lt(l[walk], l[min_position]) THEN walk ELSE min_position,
                list_after(l, walk))

\* remove_min()
u_remove_min(q) ==
    LET e == u_is_empty(q)
    IN  IF e.raised # "none"
        THEN [raised |-> e.raised, ret |-> <<>>, q |-> q]
        ELSE IF e.ret[1]
        THEN [raised |-> "Exception", ret |-> <<>>, q |-> q]
        ELSE LET deleted == list_delete(q.data, q.min_position)
                 l       == deleted.list
                 q1      == [data |-> l, min_position |-> NoPosition]
                 e2      == u_is_empty(q1)
             IN  IF e2.raised # "none"
                 THEN [raised |-> e2.raised, ret |-> <<>>, q |-> q1]
                 ELSE [raised |-> "none", ret |-> AsPair(deleted.element),
                       q |-> IF e2.ret[1]
                             THEN q1
                             ELSE [q1 EXCEPT !.min_position =
                                      rescan(l, list_first(l),
                                             list_after(l, list_first(l)))]]

\* len(pq) on a HeapPriorityQueue
h_len(d) == Len(d)

\* What one call raised and returned.
Outcome(raised_, ret_) == [raised |-> raised_, ret |-> ret_]

\* ============================================================== SpecEquiv
\* u = UnsortedPriorityQueue(); h = HeapPriorityQueue()
EquivInit ==
    /\ uq = [data |-> <<>>, min_position |-> NoPosition]
    /\ hq = heap_init(<<>>)
    /\ eq_op = "init"
    /\ u_out = NoOutcome
    /\ h_out = NoOutcome

\* u.add(k, v); h.add(k, v)
EquivAdd(k, v) ==
    /\ list_len(uq.data) < MaxLen
    /\ Len(hq) < MaxLen
    /\ uq' = u_add(uq, k, v).q
    /\ u_out' = Outcome(u_add(uq, k, v).raised, u_add(uq, k, v).ret)
    /\ hq' = add(hq, k, v)
    /\ h_out' = Outcome("none", <<>>)
    /\ eq_op' = "add"
    /\ UNCHANGED <<heapVars, sortVars, simVars, verVars>>

\* u.min(); h.min()
EquivMin ==
    /\ uq' = u_min(uq).q
    /\ u_out' = Outcome(u_min(uq).raised, u_min(uq).ret)
    /\ hq' = min(hq).data
    /\ h_out' = Outcome(min(hq).raised, min(hq).ret)
    /\ eq_op' = "min"
    /\ UNCHANGED <<heapVars, sortVars, simVars, verVars>>

\* u.remove_min(); h.remove_min()
EquivRemoveMin ==
    /\ uq' = u_remove_min(uq).q
    /\ u_out' = Outcome(u_remove_min(uq).raised, u_remove_min(uq).ret)
    /\ hq' = remove_min(hq).data
    /\ h_out' = Outcome(remove_min(hq).raised, remove_min(hq).ret)
    /\ eq_op' = "remove_min"
    /\ UNCHANGED <<heapVars, sortVars, simVars, verVars>>

\* len(u); len(h)
EquivLen ==
    /\ u_out' = Outcome(u_len(uq).raised, u_len(uq).ret)
    /\ h_out' = Outcome("none", <<h_len(hq)>>)
    /\ eq_op' = "len"
    /\ UNCHANGED <<uq, hq, heapVars, sortVars, simVars, verVars>>

\* u.is_empty(); h.is_empty()
EquivIsEmpty ==
    /\ u_out' = Outcome(u_is_empty(uq).raised, u_is_empty(uq).ret)
    /\ h_out' = Outcome("none", <<is_empty(hq)>>)
    /\ eq_op' = "is_empty"
    /\ UNCHANGED <<uq, hq, heapVars, sortVars, simVars, verVars>>

\* max(seq) of a non-empty list of numbers.
MaxOfSeq(seq) ==
    CHOOSE m \in {seq[i] : i \in 1..Len(seq)} :
        \A i \in 1..Len(seq) : seq[i] <= m

\* One report string: what it reports on and whether it shows the check mark.
Report(check, ok) == [check |-> check, ok |-> ok]

\* The "Server {i} utilization" strings of check 4.
server_reports(s) ==
    LET total_sim_time == s.metrics.simulation_end
    IN  [i \in 1..Len(s.metrics.server_busy_time) |->
            LET busy_time   == s.metrics.server_busy_time[i]
                utilization == IF total_sim_time > 0
                               THEN Frac(busy_time, total_sim_time)
                               ELSE Frac(0, 1)
            IN  Report("Server utilization",
                       0 <= utilization.num
                           /\ utilization.num <= utilization.den)]

verify_calculations_no_hasattr(s) ==
    IF ~s.has_cumulative
    THEN [raised |-> "AttributeError", results |-> <<>>, called |-> TRUE]
    ELSE [raised |-> "none",
          results |-> <<Report("Final Instant Utilization", TRUE)>>
                          \o server_reports(s),
          called |-> TRUE]

\* verify_calculations(): what the call raised, or the list it returned.
\* It assigns to no attribute of the engine.
verify_calculations(s) ==
    LET final_util ==
            IF s.utilization_history # <<>>
            THEN s.utilization_history[Len(s.utilization_history)]
            ELSE Frac(0, 1)
        final_cumulative_util ==
            IF s.has_cumulative
            THEN s.cumulative_utilization_history[
                     Len(s.cumulative_utilization_history)]
            ELSE Frac(0, 1)
        max_queue ==
            IF s.queue_length_history # <<>>
            THEN MaxOfSeq(s.queue_length_history)
            ELSE 0
        time_increasing ==
            \A i \in 1..(Len(s.time_history) - 1) :
                s.time_history[i] <= s.time_history[i + 1]
    IN  IF s.has_cumulative /\ s.cumulative_utilization_history = <<>>
        THEN [raised |-> "IndexError", results |-> <<>>, called |-> TRUE]
        ELSE [raised |-> "none",
              results |->
                  << Report("Final Instant Utilization",
                            0 <= final_util.num
                                /\ final_util.num <= final_util.den),
                     Report("Final Cumulative Utilization",
                            0 <= final_cumulative_util.num
                                /\ final_cumulative_util.num
                                       <= final_cumulative_util.den),
                     Report("Maximum Queue Length", max_queue >= 0),
                     Report("Time Monotonically Increasing",
                            time_increasing) >>
                  \o server_reports(s),
              called |-> TRUE]

\* sim.verify_calculations()
Verify ==
    /\ verify_out' = verify_calculations(Self)
    /\ UNCHANGED <<simVars, heapVars, sortVars, unsVars>>

InitHeap == HeapInit /\ SortIdle /\ SimIdle /\ VerIdle /\ UnsIdle

NextHeap ==
    \/ \E k \in Keys, v \in Vals : Add(k, v)
    \/ Min
    \/ RemoveMin

SpecHeap == InitHeap /\ [][NextHeap]_vars

InitSort == SortInit /\ HeapIdle /\ SimIdle /\ VerIdle /\ UnsIdle

NextSort ==
    \/ SortAdd
    \/ SortAdded
    \/ SortRemoveA
    \/ SortBuild
    \/ SortRemoveB
    \/ SortDone

SpecSort == InitSort /\ [][NextSort]_vars

Init == SimInit /\ HeapIdle /\ SortIdle /\ VerIdle /\ UnsIdle

Next == Step

Spec == Init /\ [][Next]_vars

InitEquiv == EquivInit /\ HeapIdle /\ SortIdle /\ SimIdle /\ VerIdle

NextEquiv ==
    \/ \E k \in Keys, v \in Vals : EquivAdd(k, v)
    \/ EquivMin
    \/ EquivRemoveMin
    \/ EquivLen
    \/ EquivIsEmpty

SpecEquiv == InitEquiv /\ [][NextEquiv]_vars

InitVerify == SimInit /\ HeapIdle /\ SortIdle /\ VerIdle /\ UnsIdle

NextVerify ==
    \/ Step
    \/ Verify

SpecVerify == InitVerify /\ [][NextVerify]_vars

\* ------------------------------------------------------------------ claims
\* C1: after any sequence of add and remove_min calls on a queue that
\* started empty or bulk-constructed from any list of pairs, every non-root
\* index j of _data has key(_data[j]) >= key(_data[(j-1)//2]).
C1_HeapInvariant == HeapOrdered(data)

\* A remove_min has left a root with two children, the right one smaller.
C1_Witness ==
    /\ last_op = "remove_min"
    /\ raised = "none"
    /\ Len(data) >= 3
    /\ At(data, 2).key < At(data, 1).key

\* C2: n pairs added to an empty queue come back from n remove_min calls in
\* non-decreasing key order, as the same multiset of pairs, leaving the
\* queue empty; keys [5, 3, 8, 1, 9, 2] drain as [1, 2, 3, 5, 8, 9].
C2_SortedOutput ==
    /\ NonDecreasing(KeysOf(outA))
    /\ (pc # "add" /\ Len(outA) = Len(input))
           => (SameMultiset(outA, input) /\ Len(hA) = 0)
    /\ (input = ScenarioC /\ Len(outA) = Len(ScenarioC))
           => KeysOf(outA) = <<1, 2, 3, 5, 8, 9>>

C2_Witness ==
    /\ input = ScenarioC
    /\ pc = "drainA"
    /\ Len(outA) = Len(ScenarioC)

\* C3: once step() has returned False, num_served equals num_customers, the
\* waiting line is empty and every server slot is None.
C3_Conservation ==
    step_ret = "False" =>
        /\ metrics.num_served = num_customers
        /\ waiting_line = <<>>
        /\ \A i \in 1..Len(servers) : servers[i] = None

\* A run in which customers had to wait has reached its terminal step.
C3_Witness ==
    /\ step_ret = "False"
    /\ num_customers >= 3
    /\ Len(wait_log) >= 2

\* C4: successive step() calls remove events with non-decreasing timestamps:
\* current_time never decreases and time_history stays non-decreasing.
C4_TimeMonotonic ==
    [][/\ current_time' >= current_time
       /\ last_event'.time >= last_event.time
       /\ NonDecreasing(time_history')]_simVars

\* A zero-delay SERVICE_START was processed at the time of the event before
\* it while other events were pending.
C4_Witness ==
    /\ Len(time_history) >= 2
    /\ last_event.event_type = "SERVICE_START"
    /\ time_history[Len(time_history) - 1] = time_history[Len(time_history)]
    /\ Len(future_events) >= 2

InUnitInterval(f) == f.den > 0 /\ 0 <= f.num /\ f.num <= f.den

\* C5: every appended instantaneous and cumulative utilization lies in
\* [0, 1]; the summed busy time never exceeds
\* num_servers * max(current_time, 1).
C5_UtilizationBounds ==
    /\ \A i \in 1..Len(utilization_history) :
           InUnitInterval(utilization_history[i])
    /\ \A i \in 1..Len(cumulative_utilization_history) :
           InUnitInterval(cumulative_utilization_history[i])
    /\ SumSeq(metrics.server_busy_time)
           <= num_servers * Max(current_time, TicksPerUnit)

\* The cumulative utilization has reached exactly 1 with a queue behind it.
C5_Witness ==
    /\ cumulative_utilization_history # <<>>
    /\ LET f == cumulative_utilization_history[
                    Len(cumulative_utilization_history)]
       IN  f.num = f.den
    /\ wait_log # <<>>

\* C6: with the future-event list empty, step() returns False and changes
\* nothing else, and so does every later call.
C6_TerminalStep ==
    [][is_empty(future_events) =>
          /\ step_ret' = "False"
          /\ UNCHANGED <<future_events, waiting_line, servers, customers,
                         metrics, current_time, queue_length_history,
                         utilization_history, time_history,
                         cumulative_utilization_history, has_cumulative>>
      ]_simVars

C6_Witness ==
    /\ step_ret = "False"
    /\ Len(time_history) >= 3

\* C7: each customer id is in at most one server slot, at most once in
\* waiting_line, and never in a slot and in waiting_line together.
C7_Exclusivity ==
    \A c \in 0..(num_customers - 1) :
        /\ Count(c, servers) <= 1
        /\ Count(c, waiting_line) <= 1
        /\ Count(c, servers) + Count(c, waiting_line) <= 1

\* Every slot of a two-server engine is busy and two customers wait.
C7_Witness ==
    /\ Len(servers) >= 2
    /\ \A i \in 1..Len(servers) : servers[i] # None
    /\ Len(waiting_line) >= 2

InLine(c) == \E i \in 1..Len(waiting_line) : waiting_line[i] = c

Started(c) == c \in DOMAIN customers /\ "service_start" \in DOMAIN customers[c]

\* Of two customers that waited, the one appended first leaves the line
\* first and starts service no later.
FifoState ==
    \A i, j \in 1..Len(wait_log) :
        i < j =>
            LET a == wait_log[i]
                b == wait_log[j]
            IN  /\ ~InLine(b) => ~InLine(a)
                /\ Started(b) => ~InLine(a)
                /\ (Started(a) /\ Started(b)) =>
                       customers[a].service_start
                           <= customers[b].service_start

\* waiting_line changes only by an append at its tail (an ARRIVAL) or by
\* losing its head to a server slot (a SERVICE_END).
FifoStep ==
    waiting_line' # waiting_line =>
        \/ /\ last_event'.event_type = "ARRIVAL"
           /\ waiting_line' = Append(waiting_line, last_event'.customer_id)
        \/ /\ last_event'.event_type = "SERVICE_END"
           /\ waiting_line # <<>>
           /\ waiting_line' = Tail(waiting_line)
           /\ \E i \in 1..Len(servers) :
                  servers[i] = last_event'.customer_id
                  /\ servers'[i] = Head(waiting_line)

\* C8: customers leave waiting_line only at a SERVICE_END and in the order
\* they were appended; of two that waited, the first appended starts service
\* at a time no later than the other and is not overtaken for a slot.
C8_FifoOrder == []FifoState /\ [][FifoStep]_simVars

\* Two customers that waited together have both started service.
C8_Witness ==
    \E i, j \in 1..Len(wait_log) :
        /\ i < j
        /\ Started(wait_log[i])
        /\ Started(wait_log[j])
        /\ \E k \in 1..Len(queue_length_history) :
               queue_length_history[k] >= 2

\* C9: min() and remove_min() on an empty queue raise instead of returning
\* a value, and leave the queue empty and unchanged.
C9_EmptyQueueErrors ==
    [][(is_empty(data) /\ last_op' \in {"min", "remove_min"}) =>
          /\ raised' # "none"
          /\ ret' = <<>>
          /\ data' = data
          /\ is_empty(data')]_heapVars

C9_Witness ==
    /\ last_op = "remove_min"
    /\ raised = "Exception"
    /\ is_empty(data)

\* C10: draining HeapPriorityQueue(contents) yields the same key sequence as
\* draining a queue built by one add() per pair, and it is non-decreasing.
C10_HeapifyEquivalent ==
    pc = "done" =>
        /\ Len(outB) = Len(input)
        /\ KeysOf(outB) = KeysOf(outA)
        /\ NonDecreasing(KeysOf(outB))

\* Both queues are drained, and on this input they returned the pairs in
\* different orders (equal keys, values swapped).
C10_Witness ==
    /\ pc = "done"
    /\ Len(input) >= 3
    /\ outB # outA

\* The positions in event_log of customer c's events of one type.
EventsOf(c, type) ==
    {i \in 1..Len(event_log) :
        event_log[i].customer_id = c /\ event_log[i].event_type = type}

EventTypes == {"ARRIVAL", "SERVICE_START", "SERVICE_END"}

\* C11: a run with N customers processes exactly 3N events, one ARRIVAL, one
\* SERVICE_START and one SERVICE_END per customer: step() returns True 3N
\* times and then False; 1 server and 1 customer give 3 events, num_served 1.
C11_EventCount ==
    /\ Len(event_log) <= 3 * num_customers
    /\ Len(time_history) = Len(event_log)
    /\ (Len(event_log) < 3 * num_customers) => ~is_empty(future_events)
    /\ (Len(event_log) = 3 * num_customers) => is_empty(future_events)
    /\ step_ret = "False" =>
           /\ Len(event_log) = 3 * num_customers
           /\ \A c \in 0..(num_customers - 1) : \A t \in EventTypes :
                  Cardinality(EventsOf(c, t)) = 1
    /\ (step_ret = "False" /\ num_servers = 1 /\ num_customers = 1) =>
           /\ [i \in 1..Len(event_log) |-> event_log[i].event_type]
                  = <<"ARRIVAL", "SERVICE_START", "SERVICE_END">>
           /\ metrics.num_served = 1

\* The one-server, one-customer run has returned False.
C11_Witness ==
    /\ step_ret = "False"
    /\ num_servers = 1
    /\ num_customers = 1
    /\ Len(event_log) = 3

\* The number of step() calls that returned True so far.
TrueSteps == Len(event_log)

\* The three histories __init__ creates have one entry per processed event,
\* and the last queue length is the line's length after the handler.
HistoryAccountingOfInitLists ==
    /\ Len(time_history) = TrueSteps
    /\ Len(queue_length_history) = TrueSteps
    /\ Len(utilization_history) = TrueSteps
    /\ TrueSteps > 0 =>
           queue_length_history[TrueSteps] = Len(waiting_line)

\* The same for cumulative_utilization_history once step() has created it.
HistoryAccountingFromFirstStep ==
    /\ HistoryAccountingOfInitLists
    /\ has_cumulative <=> TrueSteps > 0
    /\ Len(cumulative_utilization_history) = TrueSteps

\* C12: after k step() calls that returned True, time_history,
\* queue_length_history, utilization_history and
\* cumulative_utilization_history each have exactly k entries, and the
\* appended queue length is len(waiting_line) after the handler ran.
C12_HistoryAccounting ==
    /\ HistoryAccountingOfInitLists
    /\ has_cumulative
    /\ Len(cumulative_utilization_history) = TrueSteps

Waited(c) == \E i \in 1..Len(wait_log) : wait_log[i] = c

\* C13: a customer whose ARRIVAL was processed while a slot was None (so it
\* never joined waiting_line) has its SERVICE_START processed at its arrival
\* timestamp and adds 0 to total_wait_time, whatever else is pending then.
C13_ZeroWaitOnIdle ==
    /\ \A c \in DOMAIN customers :
           (~Waited(c) /\ Started(c)) =>
               customers[c].service_start = customers[c].arrival
    /\ wait_log = <<>> => metrics.total_wait_time = 0

\* A customer found an idle slot, and another event of the same timestamp
\* was processed between its ARRIVAL and its SERVICE_START.
C13_Witness ==
    \E c \in DOMAIN customers :
        /\ ~Waited(c)
        /\ Started(c)
        /\ \E i \in EventsOf(c, "ARRIVAL") :
           \E k \in EventsOf(c, "SERVICE_START") :
               k > i + 1 /\ event_log[i + 1].time = event_log[i].time

\* The time the ARRIVAL of customer c carries: recorded once processed,
\* still in the future-event list before.
ArrivalTime(c) ==
    IF c \in DOMAIN customers
    THEN customers[c].arrival
    ELSE LET i == CHOOSE i \in 1..Len(future_events) :
                      /\ future_events[i].value.event_type = "ARRIVAL"
                      /\ future_events[i].value.customer_id = c
         IN  future_events[i].key

\* Scenario B: 1 server, 2 customers, the first arriving before the second,
\* the service duration longer than the gap between their arrivals.
ScenarioB ==
    /\ num_servers = 1
    /\ num_customers = 2
    /\ ArrivalTime(0) < ArrivalTime(1)
    /\ service_time > ArrivalTime(1) - ArrivalTime(0)

\* C14: in scenario B the second customer's wait (service_start - arrival)
\* is (service_start of the first + d) - arrival of the second.
C14_ScenarioBWait ==
    (ScenarioB /\ Started(0) /\ Started(1)) =>
        /\ customers[1].service_start - customers[1].arrival
               = (customers[0].service_start + service_time)
                     - customers[1].arrival
        /\ metrics.total_wait_time
               = (customers[0].service_start + service_time)
                     - customers[1].arrival

C14_Witness ==
    /\ ScenarioB
    /\ Started(0)
    /\ Started(1)
    /\ customers[1].service_start > customers[1].arrival

\* Scenario B, after the first SERVICE_START and before the first SERVICE_END.
ScenarioBFirstService == ScenarioB /\ Started(0) /\ metrics.num_served = 0

\* C15 as stated: in scenario B waiting_line holds exactly 1 element between
\* the processing of the first SERVICE_START and of the first SERVICE_END.
C15_LineHoldsOneThroughout ==
    ScenarioBFirstService => Len(waiting_line) = 1

\* C15 as amended: in that window waiting_line is empty until the second
\* customer's ARRIVAL is processed and holds exactly that customer from then
\* on; the second ARRIVAL is processed inside the window.
C15_LineHoldsOneAfterSecondArrival ==
    /\ ScenarioBFirstService =>
           waiting_line = IF 1 \in DOMAIN customers THEN <<1>> ELSE <<>>
    /\ (ScenarioB /\ 1 \in DOMAIN customers) => Started(0)
    /\ (ScenarioB /\ metrics.num_served >= 1) =>
           (1 \in DOMAIN customers /\ waiting_line = <<>>)

C15_Witness ==
    /\ ScenarioBFirstService
    /\ waiting_line = <<1>>

\* The event a step removed is consistent with the engine it was removed in.
ConsistentEvent(e, custs, srv) ==
    LET c == e.customer_id
    IN  /\ e.event_type \in {"SERVICE_START", "SERVICE_END"} =>
               c \in DOMAIN custs
        /\ e.event_type = "SERVICE_END" =>
               /\ c \in DOMAIN custs
               /\ "service_start" \in DOMAIN custs[c]
               /\ Count(c, srv) = 1

\* C16: every SERVICE_START and SERVICE_END that step() removes names a
\* customer already in the customers table, and every SERVICE_END names a
\* customer that then occupies exactly one server slot and has a recorded
\* service_start.
C16_ConsistentEvents ==
    [][Len(event_log') = Len(event_log) + 1 =>
           ConsistentEvent(event_log'[Len(event_log')], customers, servers)]_vars

\* A SERVICE_END was processed for a customer that had waited in line while
\* both slots were taken.
C16_Witness ==
    /\ last_event.event_type = "SERVICE_END"
    /\ Waited(last_event.customer_id)
    /\ num_servers = 2

\* The position in event_log of the only event of that type for customer c.
EventAt(c, type) == CHOOSE i \in EventsOf(c, type) : TRUE

\* The lifecycle of customer c as far as event_log records it.
LifecycleInOrder(c) ==
    /\ \A type \in EventTypes : Cardinality(EventsOf(c, type)) <= 1
    /\ EventsOf(c, "SERVICE_START") # {} =>
           /\ EventsOf(c, "ARRIVAL") # {}
           /\ EventAt(c, "ARRIVAL") < EventAt(c, "SERVICE_START")
           /\ event_log[EventAt(c, "ARRIVAL")].time
                  <= event_log[EventAt(c, "SERVICE_START")].time
    /\ EventsOf(c, "SERVICE_END") # {} =>
           /\ EventsOf(c, "SERVICE_START") # {}
           /\ EventAt(c, "SERVICE_START") < EventAt(c, "SERVICE_END")
           /\ event_log[EventAt(c, "SERVICE_END")].time
                  = event_log[EventAt(c, "SERVICE_START")].time + service_time

\* C17: for every customer id, ARRIVAL, SERVICE_START and SERVICE_END are
\* each processed exactly once, in that order, with arrival time <= service
\* start time <= service end time and service end time = service start time
\* + service_time.
C17_LifecycleOrder ==
    /\ \A c \in 0..(num_customers - 1) : LifecycleInOrder(c)
    /\ \A i \in 1..Len(event_log) :
           event_log[i].customer_id \in 0..(num_customers - 1)
    /\ step_ret = "False" =>
           \A c \in 0..(num_customers - 1) :
               \A type \in EventTypes : Cardinality(EventsOf(c, type)) = 1

\* A finished run in which some customer started strictly after it arrived.
C17_Witness ==
    /\ step_ret = "False"
    /\ \E c \in 0..(num_customers - 1) :
           /\ EventsOf(c, "SERVICE_END") # {}
           /\ event_log[EventAt(c, "ARRIVAL")].time
                  < event_log[EventAt(c, "SERVICE_START")].time

\* C18: verify_calculations(), called in any state reachable from
\* construction (before the first step(), mid-run, after the terminal step),
\* raises nothing, returns its list of report strings (four, and one per
\* server) and changes no engine state.
C18_VerifyNeverRaises ==
    /\ [](verify_out.called =>
              /\ verify_out.raised = "none"
              /\ Len(verify_out.results) = 4 + num_servers)
    /\ [][verify_out'.called => UNCHANGED simVars]_vars

\* verify_calculations() was called before the first step().
C18_Witness ==
    /\ verify_out.called
    /\ ~has_cumulative
    /\ time_history = <<>>

\* verify_calculations() was called mid-run and after the terminal step.
C18_WitnessMidRun ==
    /\ verify_out.called
    /\ ~is_empty(future_events)
    /\ waiting_line # <<>>

C18_WitnessTerminal ==
    /\ verify_out.called
    /\ step_ret = "False"

\* C19: for every sequence of add, min, remove_min, len and is_empty calls
\* applied to an UnsortedPriorityQueue and a HeapPriorityQueue that both
\* start empty, each call fails on both or on neither, min and remove_min
\* return the same key, and len and is_empty give the same answer.
C19_BackendsEquivalent ==
    /\ (u_out.raised = "none") <=> (h_out.raised = "none")
    /\ (u_out.raised = "none" /\ h_out.raised = "none") =>
           /\ eq_op \in {"min", "remove_min"} => u_out.ret[1] = h_out.ret[1]
           /\ eq_op \in {"len", "is_empty"} => u_out.ret = h_out.ret

\* The stored item min() and remove_min() are to select: the earliest added
\* among those of minimal key.
EarliestMin(l) ==
    l[CHOOSE i \in 1..Len(l) :
          /\ \A j \in 1..Len(l) : l[i].key <= l[j].key
          /\ \A j \in 1..(i - 1) : l[j].key > l[i].key]

\* C20: min() and remove_min() on a non-empty UnsortedPriorityQueue return
\* the earliest added of the items with minimal key (so equal keys leave in
\* insertion order), whatever add and remove_min calls came before.
C20_TieOrder ==
    [][(eq_op' \in {"min", "remove_min"} /\ uq.data # <<>>) =>
           /\ u_out'.raised = "none"
           /\ u_out'.ret = AsPair(EarliestMin(uq.data))]_vars

\* The position of the pair x in the sequence s (x occurs in s).
PositionIn(x, s) == CHOOSE i \in 1..Len(s) : s[i] = x

\* The n add calls were followed by n remove_min calls.
DrainedA == pc # "add" /\ Len(outA) = Len(input)

\* Pairs added as (k1, v), (k2, "a"), (k2, "b") with k1 < k2.
TieAfterSmaller ==
    /\ Len(input) = 3
    /\ input[1][1] < input[2][1]
    /\ input[2][1] = input[3][1]
    /\ input[2][2] = "a"
    /\ input[3][2] = "b"

\* C21: the heap does not keep insertion order among equal keys: after
\* add(k1, v), add(k2, "a"), add(k2, "b") with k1 < k2, the three remove_min
\* calls return (k2, "b"), added last, before (k2, "a").
C21_TieOrderNotFifo ==
    (TieAfterSmaller /\ DrainedA) =>
        /\ outA = <<input[1], input[3], input[2]>>
        /\ PositionIn(input[3], outA) < PositionIn(input[2], outA)

C21_Witness ==
    /\ TieAfterSmaller
    /\ DrainedA
    /\ \E i, j \in 1..Len(input) :
           /\ i < j
           /\ input[i][1] = input[j][1]
           /\ PositionIn(input[j], outA) < PositionIn(input[i], outA)

\* The smallest key among the items of d (d non-empty).
SmallestKey(d) ==
    CHOOSE k \in {d[i].key : i \in 1..Len(d)} :
        \A i \in 1..Len(d) : k <= d[i].key

\* C22: on a non-empty queue min() returns a (key, value) pair whose key is
\* the smallest key stored and the key the next remove_min() returns, and it
\* leaves the stored sequence and its length unchanged.
C22_PeekIsPure ==
    [][(last_op' = "min" /\ ~is_empty(data)) =>
           /\ raised' = "none"
           /\ Len(ret') = 2
           /\ data' = data
           /\ Len(data') = Len(data)
           /\ ret'[1] = SmallestKey(data)
           /\ ret'[1] = remove_min(data').ret[1]]_vars

\* min() answered on a queue holding several items of different keys.
C22_Witness ==
    /\ last_op = "min"
    /\ raised = "none"
    /\ Len(data) >= 3
    /\ \E i \in 1..Len(data) : data[i].key > ret[1]

\* How many entries of the future-event list fe hold event e under its time.
PendingCount(fe, e) ==
    Cardinality({i \in 1..Len(fe) : fe[i].value = e /\ fe[i].key = e.time})

PendingEvents(fe) == {fe[i].value : i \in 1..Len(fe)}

\* The future-event list after the step is the one before it without the
\* event removed and with the events of `added`, each once, under its time.
PendingChange(removed, added) ==
    /\ \A i \in 1..Len(future_events') :
           future_events'[i].key = future_events'[i].value.time
    /\ \A e \in PendingEvents(future_events) \cup PendingEvents(future_events')
                    \cup added :
           PendingCount(future_events', e) =
               PendingCount(future_events, e)
                   - (IF e = removed THEN 1 ELSE 0)
                   + (IF e \in added THEN 1 ELSE 0)

\* The step processed one more event, of the given type.
Processed(type) ==
    /\ Len(event_log') = Len(event_log) + 1
    /\ last_event'.event_type = type

IdleSlots == {i \in 1..Len(servers) : servers[i] = None}

\* What _arrival does with customer c at time now.
ArrivalEffect(c, now) ==
    /\ c \in DOMAIN customers'
    /\ customers'[c] = [arrival |-> now]
    /\ \A d \in DOMAIN customers : customers'[d] = customers[d]
    /\ IF IdleSlots # {}
       THEN LET i == CHOOSE i \in IdleSlots : \A j \in IdleSlots : i <= j
            IN  /\ servers' = [servers EXCEPT ![i] = c]
                /\ waiting_line' = waiting_line
                /\ PendingChange(last_event',
                                 {Event(now, "SERVICE_START", c)})
       ELSE /\ servers' = servers
            /\ waiting_line' = Append(waiting_line, c)
            /\ PendingChange(last_event', {})

\* C23: processing ARRIVAL(c) records c's arrival time as current_time; with
\* a slot None it puts c in the lowest-indexed None slot, adds exactly one
\* SERVICE_START(c) at current_time and leaves waiting_line unchanged;
\* otherwise, and only then, it appends c to waiting_line, adds no event and
\* changes no slot.
C23_ArrivalHandling ==
    [][Processed("ARRIVAL") =>
           /\ current_time' = last_event'.time
           /\ ArrivalEffect(last_event'.customer_id, current_time')]_vars

\* An ARRIVAL was processed with the first slot taken and the second None.
C23_Witness ==
    /\ last_event.event_type = "ARRIVAL"
    /\ num_servers = 2
    /\ servers[1] # None
    /\ servers[1] # last_event.customer_id
    /\ servers[2] = last_event.customer_id

\* An ARRIVAL was processed with every slot taken.
C23_WitnessAllBusy ==
    /\ last_event.event_type = "ARRIVAL"
    /\ InLine(last_event.customer_id)

\* What _service_end does with customer c, held by slot i, at time now.
ServiceEndEffect(c, i, now) ==
    /\ metrics'.num_served = metrics.num_served + 1
    /\ metrics'.simulation_end = now
    /\ metrics'.server_busy_time =
           [metrics.server_busy_time EXCEPT
               ![i] = @ + (now - customers[c].service_start)]
    /\ IF waiting_line # <<>>
       THEN /\ waiting_line' = Tail(waiting_line)
            /\ servers' = [servers EXCEPT ![i] = Head(waiting_line)]
            /\ PendingChange(last_event',
                   {Event(now, "SERVICE_START", Head(waiting_line))})
       ELSE /\ waiting_line' = waiting_line
            /\ servers' = [servers EXCEPT ![i] = None]
            /\ PendingChange(last_event', {})

\* C24: processing SERVICE_END(c) adds one to num_served, sets
\* simulation_end to current_time, adds current_time - service_start of c to
\* the busy time of exactly the slot that held c, and hands that slot to the
\* head of waiting_line with exactly one SERVICE_START(head) at current_time,
\* or sets it to None and adds no event when the line is empty; the other
\* slots are unchanged.
C24_ServiceEndHandOff ==
    [][Processed("SERVICE_END") =>
           LET c == last_event'.customer_id
           IN  /\ Count(c, servers) = 1
               /\ current_time' = last_event'.time
               /\ ServiceEndEffect(c,
                      CHOOSE i \in 1..Len(servers) : servers[i] = c,
                      current_time')]_vars

\* A SERVICE_END handed the second slot to a customer that had waited.
C24_Witness ==
    /\ last_event.event_type = "SERVICE_END"
    /\ num_servers = 2
    /\ servers[1] # None
    /\ servers[2] # None
    /\ Waited(servers[2])
    /\ ~Started(servers[2])
    /\ metrics.server_busy_time[2] > 0

\* A SERVICE_END left its slot None: nobody was waiting.
C24_WitnessIdle ==
    /\ last_event.event_type = "SERVICE_END"
    /\ \E i \in 1..Len(servers) : servers[i] = None
    /\ ~is_empty(future_events)

\* service_start - arrival of customer c, 0 while c has not started.
WaitOf(c) ==
    IF Started(c)
    THEN customers[c].service_start - customers[c].arrival
    ELSE 0

\* C25: total_wait_time is the sum of service_start - arrival over the
\* customers whose SERVICE_START has been processed, each term >= 0;
\* total_wait_time and num_served never decrease, and num_served never
\* exceeds num_customers.
C25_WaitAccounting ==
    /\ [](/\ metrics.total_wait_time =
                 SumSeq([k \in 1..num_customers |-> WaitOf(k - 1)])
          /\ \A c \in 0..(num_customers - 1) : WaitOf(c) >= 0
          /\ metrics.num_served <= num_customers)
    /\ [][/\ metrics'.total_wait_time >= metrics.total_wait_time
          /\ metrics'.num_served >= metrics.num_served]_vars

\* Two customers have started after waiting for different positive times.
C25_Witness ==
    \E c, d \in DOMAIN customers :
        /\ Started(c)
        /\ Started(d)
        /\ 0 < WaitOf(c)
        /\ WaitOf(c) < WaitOf(d)
        /\ metrics.total_wait_time >= WaitOf(c) + WaitOf(d)

BusySlots == {i \in 1..Len(servers) : servers[i] # None}

\* C26: after any number of step() calls, the number of customers whose
\* ARRIVAL has been processed (the size of the customers table) equals
\* num_served + the number of non-None server slots + len(waiting_line).
C26_ConservationEveryStep ==
    Cardinality(DOMAIN customers) =
        metrics.num_served + Cardinality(BusySlots) + Len(waiting_line)

\* Some customers are served, some in service and some in line.
C26_Witness ==
    /\ metrics.num_served >= 1
    /\ Cardinality(BusySlots) = 2
    /\ Len(waiting_line) >= 1

\* C27: between step() calls, a non-empty waiting_line means every server
\* slot is occupied.
C27_WorkConservation ==
    waiting_line # <<>> => \A i \in 1..Len(servers) : servers[i] # None

\* A SERVICE_END was just processed while customers were still in line.
C27_Witness ==
    /\ last_event.event_type = "SERVICE_END"
    /\ waiting_line # <<>>
    /\ num_servers = 2

\* The entries of the future-event list that name customer c.
PendingFor(c) ==
    {i \in 1..Len(future_events) : future_events[i].value.customer_id = c}

Served(c) == EventsOf(c, "SERVICE_END") # {}

\* C28: between step() calls, the future-event list holds exactly one event
\* for each customer not yet arrived (its ARRIVAL), exactly one for each
\* customer in a server slot (its SERVICE_START or SERVICE_END) and none for
\* customers in waiting_line or already served; so its length is
\* (num_customers - arrived) + busy slots, and it is empty only when all
\* customers are served.
C28_PendingAccounting ==
    /\ \A c \in 0..(num_customers - 1) :
           /\ c \notin DOMAIN customers =>
                  /\ Cardinality(PendingFor(c)) = 1
                  /\ \A i \in PendingFor(c) :
                         future_events[i].value.event_type = "ARRIVAL"
           /\ Count(c, servers) >= 1 =>
                  /\ Cardinality(PendingFor(c)) = 1
                  /\ \A i \in PendingFor(c) :
                         future_events[i].value.event_type
                             \in {"SERVICE_START", "SERVICE_END"}
           /\ (InLine(c) \/ Served(c)) => PendingFor(c) = {}
           /\ c \in DOMAIN customers =>
                  (Count(c, servers) >= 1 \/ InLine(c) \/ Served(c))
    /\ \A i \in 1..Len(future_events) :
           future_events[i].value.customer_id \in 0..(num_customers - 1)
    /\ Len(future_events) =
           (num_customers - Cardinality(DOMAIN customers))
               + Cardinality(BusySlots)
    /\ is_empty(future_events) => metrics.num_served = num_customers

\* Pending at once: an ARRIVAL, a SERVICE_START and a SERVICE_END, with a
\* customer in line.
C28_Witness ==
    /\ \A type \in EventTypes :
           \E i \in 1..Len(future_events) :
               future_events[i].value.event_type = type
    /\ waiting_line # <<>>

====
